---- MODULE Spec2Model ----
(***************************************************************************)
(* Model of the MC14500 assembler of src/src/lib.rs: the logos lexer that  *)
(* Token derives, Program::from_assembly, and Program::into_opcodes with   *)
(* its two helpers.  A source text is a sequence of one-character strings, *)
(* a token is a tuple <<variant>> or <<"Operand", value>>, and a returned  *)
(* Result is <<"Ok", string>> or <<"Err", kind>>.                          *)
(***************************************************************************)
EXTENDS Naturals, Sequences, FiniteSets, TLC

VARIABLES
    source,             \* the &str handed to Program::from_assembly
    tokens,             \* Program.tokens
    pos,                \* characters the lexer of from_assembly has consumed
    pc,                 \* where the caller is: "lex", "ready", "loop", "done"
    i,                  \* position of the for loop of into_opcodes (1-based)
    output,             \* the local String of into_opcodes
    expecting_operand,  \* the local flag of into_opcodes
    result,             \* what the last into_opcodes call returned
    calls,              \* how many into_opcodes calls the caller has made
    first,              \* what the caller's first call returned
    other               \* a second caller with a Program of its own: its
                        \* source, tokens, pc, i, output, expecting_operand
                        \* and result

vars == <<source, tokens, pos, pc, i, output, expecting_operand, result, calls,
          first, other>>

----------------------------------------------------------------------------
(* Bounds of the model. *)

\* Pieces concatenated into a source text of the main specification.
MaxPieces == 4
\* Pieces appended after the long run of operands of a long source text.
MaxTailPieces == 2
\* Characters of a source text made of hexadecimal digits only.
MaxHexLen == 2
\* Pieces of a source text spelling overlapping mnemonics.
MaxGreedyPieces == 2
\* into_opcodes calls the caller makes on one source text.
MaxCalls == 2
\* Pieces of a source text of mnemonics, operands and unrecognized characters.
MaxFlowPieces == 3
\* Pieces of a source text of hexadecimal digits and whitespace.
MaxDigitPieces == 3
\* Pieces of each source text of two concurrent callers.
MaxTwoPieces == 2

----------------------------------------------------------------------------
(* Program constants. *)

MAX_PROGRAM_LENGTH == 128

ExpectedOperand == "ExpectedOperand"
ExceededMaxLength == "ExceededMaxLength"

Ok(s) == <<"Ok", s>>
Err(e) == <<"Err", e>>
NoResult == <<"None">>
\* The call unwound with a panic instead of returning.
Panic == <<"Panic">>

----------------------------------------------------------------------------
(* The lexer derived for Token (logos): at each position the longest match *)
(* of the #[token] literals and the #[regex] patterns wins, a match of a   *)
(* pattern with logos::skip yields no token, and where nothing matches the *)
(* lexer yields the #[error] variant for one character.                    *)

\* #[token("...")] literals and the variants they produce.
Mnemonics ==
    { [lit |-> <<"N","O","P">>,     variant |-> "NoOp"],
      [lit |-> <<"L","D">>,         variant |-> "Load"],
      [lit |-> <<"L","D","C">>,     variant |-> "LoadComplement"],
      [lit |-> <<"A","N","D">>,     variant |-> "And"],
      [lit |-> <<"A","N","D","C">>, variant |-> "AndComplement"],
      [lit |-> <<"O","R">>,         variant |-> "Or"],
      [lit |-> <<"O","R","C">>,     variant |-> "OrComplement"],
      [lit |-> <<"X","N","O","R">>, variant |-> "ExclusiveNor"],
      [lit |-> <<"S","T","O">>,     variant |-> "Store"],
      [lit |-> <<"S","T","O","C">>, variant |-> "StoreComplement"],
      [lit |-> <<"I","E","N">>,     variant |-> "InputEnable"],
      [lit |-> <<"O","E","N">>,     variant |-> "OutputEnable"],
      [lit |-> <<"J","M","P">>,     variant |-> "Jump"],
      [lit |-> <<"R","T","N">>,     variant |-> "Return"],
      [lit |-> <<"S","K","Z">>,     variant |-> "SkipIfZero"] }

\* The digits of radix 16, by value, in the two cases.
UpperDigits == <<"0","1","2","3","4","5","6","7","8","9","A","B","C","D","E","F">>
LowerDigits == <<"0","1","2","3","4","5","6","7","8","9","a","b","c","d","e","f">>

\* The character class [a-fA-F0-9] of the Operand regex.
OperandChars == {UpperDigits[k] : k \in 1..16} \cup {LowerDigits[k] : k \in 1..16}

\* The character class [ \t\n\f] of the skipped whitespace regex.
WhitespaceChars == {" ", "\t", "\n", "\f"}

\* u8::from_str_radix(slice, 16) on a one-character slice of OperandChars.
from_str_radix(c) ==
    (CHOOSE k \in 1..16 : UpperDigits[k] = c \/ LowerDigits[k] = c) - 1

IsPrefix(p, s) == Len(p) <= Len(s) /\ SubSeq(s, 1, Len(p)) = p

\* Number of leading characters of s that are in (in = TRUE) or not in
\* (in = FALSE) the set cs.
RunLength(s, cs, in) ==
    LET stop == {k \in 1..Len(s) : (s[k] \in cs) # in}
    IN  IF stop = {} THEN Len(s)
        ELSE (CHOOSE k \in stop : \A j \in stop : k <= j) - 1

\* LiteralLen as it would be if the shortest matching literal won.
LiteralLen_shortest(s) ==
    LET hit == {Len(m.lit) : m \in {m \in Mnemonics : IsPrefix(m.lit, s)}}
    IN  IF hit = {} THEN 0 ELSE CHOOSE n \in hit : \A k \in hit : n <= k

\* Length matched at the head of s by the longest mnemonic literal (0: none).
LiteralLen(s) ==
    LET hit == {Len(m.lit) : m \in {m \in Mnemonics : IsPrefix(m.lit, s)}}
    IN  IF hit = {} THEN 0 ELSE CHOOSE n \in hit : \A k \in hit : k <= n

\* Length matched by [a-fA-F0-9].
OperandLen(s) == IF Head(s) \in OperandChars THEN 1 ELSE 0

\* CommentLen as it would be if the dot matched the newline too.
CommentLen_to_end_of_input(s) ==
    IF Head(s) = ";" THEN Len(s) ELSE 0

\* Length matched by ;.* (the dot matches every character but the newline).
CommentLen(s) ==
    IF Head(s) = ";" THEN 1 + RunLength(Tail(s), {"\n"}, FALSE) ELSE 0

\* Length matched by [ \t\n\f]+.
WhitespaceLen(s) == RunLength(s, WhitespaceChars, TRUE)

\* One step of the lexer on the non-empty remaining text s: the number of
\* characters consumed and the tokens yielded (none for a skipped match).
NextToken(s) ==
    LET lit == LiteralLen(s)
        opd == OperandLen(s)
        com == CommentLen(s)
        wsp == WhitespaceLen(s)
    IN  IF lit > 0 /\ lit >= opd /\ lit >= com /\ lit >= wsp
        THEN [len |-> lit,
              yield |-> <<<<(CHOOSE m \in Mnemonics :
                               IsPrefix(m.lit, s) /\ Len(m.lit) = lit).variant>>>>]
        ELSE IF opd > 0 /\ opd >= com /\ opd >= wsp
        THEN [len |-> opd, yield |-> <<<<"Operand", from_str_radix(Head(s))>>>>]
        ELSE IF com > 0 /\ com >= wsp
        THEN [len |-> com, yield |-> <<>>]
        ELSE IF wsp > 0
        THEN [len |-> wsp, yield |-> <<>>]
        ELSE [len |-> 1, yield |-> <<<<"Error">>>>]

\* Token::lexer(assembly).collect(): every token the lexer yields, in order.
RECURSIVE Lex(_)
Lex(s) ==
    IF s = <<>> THEN <<>>
    ELSE LET m == NextToken(s)
         IN  m.yield \o Lex(SubSeq(s, m.len + 1, Len(s)))

----------------------------------------------------------------------------
(* The helpers of into_opcodes. *)

\* FormatUpperHex as it would be with the format "{:x}".
FormatLowerHex(v) ==
    IF v < 16 THEN <<LowerDigits[v + 1]>>
    ELSE <<LowerDigits[(v \div 16) + 1], LowerDigits[(v % 16) + 1]>>

\* format!("{:X}", operand) for a u8: its upper-case digits of radix 16.
FormatUpperHex(v) ==
    IF v < 16 THEN <<UpperDigits[v + 1]>>
    ELSE <<UpperDigits[(v \div 16) + 1], UpperDigits[(v % 16) + 1]>>

\* Some(c) is <<c>>, None is <<>>.
get_token_representation(token) ==
    CASE token[1] = "NoOp"            -> <<"0">>
      [] token[1] = "Load"            -> <<"1">>
      [] token[1] = "LoadComplement"  -> <<"2">>
      [] token[1] = "And"             -> <<"3">>
      [] token[1] = "AndComplement"   -> <<"4">>
      [] token[1] = "Or"              -> <<"5">>
      [] token[1] = "OrComplement"    -> <<"6">>
      [] token[1] = "ExclusiveNor"    -> <<"7">>
      [] token[1] = "Store"           -> <<"8">>
      [] token[1] = "StoreComplement" -> <<"9">>
      [] token[1] = "InputEnable"     -> <<"A">>
      [] token[1] = "OutputEnable"    -> <<"B">>
      [] token[1] = "Jump"            -> <<"C">>
      [] token[1] = "Return"          -> <<"D">>
      [] token[1] = "SkipIfZero"      -> <<"E">>
      [] token[1] = "Operand"         -> <<Head(FormatUpperHex(token[2]))>>
      [] token[1] \in {"Comment", "Error"} -> <<>>

\* does_token_require_operand as it would be with Token::Load left out.
does_token_require_operand_without_load(token) ==
    token[1] \in {"LoadComplement", "And", "AndComplement", "Or",
                  "OrComplement", "ExclusiveNor", "Store", "StoreComplement",
                  "InputEnable", "OutputEnable", "Jump"}

does_token_require_operand(token) ==
    token[1] \in {"Load", "LoadComplement", "And", "AndComplement", "Or",
                  "OrComplement", "ExclusiveNor", "Store", "StoreComplement",
                  "InputEnable", "OutputEnable", "Jump"}

\* ExceedsMaxLength as it would be if only the tokens that emit a character
\* were counted.
ExceedsMaxLength_emitted_only(ts) ==
    Cardinality({k \in 1..Len(ts) : ts[k][1] \notin {"Comment", "Error"}})
        > MAX_PROGRAM_LENGTH

\* ExceedsMaxLength as it would be with >= for >.
ExceedsMaxLength_off_by_one(ts) == Len(ts) >= MAX_PROGRAM_LENGTH

\* IsOperand as it would be if the match let every token through.
IsOperand_any(token) == TRUE

\* The unwrap of line 142: it panics when the formatted operand has no
\* first character.
UnwrapPanics(token) ==
    token[1] = "Operand" /\ FormatUpperHex(token[2]) = <<>>

\* The test of line 88.
ExceedsMaxLength(ts) == Len(ts) > MAX_PROGRAM_LENGTH

\* The match of lines 100-105.
IsOperand(token) == token[1] = "Operand"

----------------------------------------------------------------------------
(* Source texts. *)

RECURSIVE Concat(_)
Concat(ss) == IF ss = <<>> THEN <<>> ELSE Head(ss) \o Concat(Tail(ss))

\* Every concatenation of at most n pieces of ps.
Texts(ps, n) ==
    {Concat(ss) : ss \in UNION {[1..k -> ps] : k \in 0..n}}

\* The text s repeated n times.
Repeat(s, n) == [k \in 1..(n * Len(s)) |-> s[((k - 1) % Len(s)) + 1]]

\* Pieces of the main specification: a mnemonic that requires an operand, one
\* that does not, an operand, the digit that completes LD to LDC, a comment
\* start, two whitespace characters and a character no pattern matches.
Pieces ==
    { <<"L","D">>, <<"R","T","N">>, <<"7">>, <<"C">>,
      <<";">>, <<"\n">>, <<" ">>, <<"@">> }

\* Long texts: a run of operands around MAX_PROGRAM_LENGTH tokens long,
\* followed by a short tail.
TailPieces == { <<"L","D">>, <<"7">>, <<"@">> }

LongTexts ==
    { Repeat(<<"7">>, n) \o t :
        n \in (MAX_PROGRAM_LENGTH - MaxTailPieces)..(MAX_PROGRAM_LENGTH + 1),
        t \in Texts(TailPieces, MaxTailPieces) }

\* Texts of hexadecimal digits only.
HexTexts == UNION {[1..k -> OperandChars] : k \in 0..MaxHexLen}

\* Texts spelling the mnemonics that are prefixes of one another.
GreedyPieces ==
    { <<"L","D">>, <<"A","N","D">>, <<"O","R">>, <<"S","T","O">>,
      <<"C">>, <<"7">>, <<" ">> }

\* Texts of mnemonics with and without an operand, an operand and a
\* character no pattern matches.
FlowPieces ==
    { <<"N","O","P">>, <<"R","T","N">>, <<"S","K","Z">>, <<"L","D">>,
      <<"J","M","P">>, <<"7">>, <<"@">> }

\* Texts of hexadecimal digits and whitespace.
DigitPieces == { <<"7">>, <<"A">>, <<"D">>, <<"d">>, <<" ">>, <<"\n">> }

\* Texts of two concurrent callers.
TwoPieces == { <<"L","D">>, <<"7">>, <<"@">> }

----------------------------------------------------------------------------
(* The caller: build a Program, call into_opcodes, and do both again. *)

\* The second caller before it has built its Program from the text t
\* (pc "idle": there is no second caller).
OtherCaller(t, at) ==
    [source |-> t, tokens |-> <<>>, pc |-> at, i |-> 0, output |-> <<>>,
     expecting_operand |-> FALSE, result |-> NoResult]

InitBoth(texts, others) ==
    /\ source \in texts
    /\ tokens = <<>>
    /\ pos = 0
    /\ pc = "lex"
    /\ i = 0
    /\ output = <<>>
    /\ expecting_operand = FALSE
    /\ result = NoResult
    /\ calls = 0
    /\ first = NoResult
    /\ other \in others

InitWith(texts) == InitBoth(texts, {OtherCaller(<<>>, "idle")})

Init == InitWith(Texts(Pieces, MaxPieces))

\* Program::from_assembly, line 81: collect() takes the lexer's next match.
lexer_next ==
    /\ pc = "lex"
    /\ pos < Len(source)
    /\ LET m == NextToken(SubSeq(source, pos + 1, Len(source)))
       IN  /\ tokens' = tokens \o m.yield
           /\ pos' = pos + m.len
    /\ UNCHANGED <<other, source, pc, i, output, expecting_operand, result, calls, first>>

\* Program::from_assembly, lines 81-83: the lexer is exhausted.
from_assembly_return ==
    /\ pc = "lex"
    /\ pos = Len(source)
    /\ pc' = "ready"
    /\ UNCHANGED <<other, source, tokens, pos, i, output, expecting_operand, result, calls, first>>

\* What the caller keeps of a returned result.
Returned(r) ==
    /\ result' = r
    /\ pc' = "done"
    /\ calls' = calls + 1
    /\ first' = IF calls = 0 THEN r ELSE first

\* into_opcodes_enter as it would be if output were a buffer kept across
\* calls and not cleared.
into_opcodes_enter_stale_output ==
    /\ pc = "ready"
    /\ IF Len(tokens) > MAX_PROGRAM_LENGTH
       THEN /\ Returned(Err(ExceededMaxLength))
            /\ UNCHANGED <<i, output, expecting_operand>>
       ELSE /\ expecting_operand' = FALSE
            /\ i' = 1
            /\ pc' = "loop"
            /\ UNCHANGED <<output, result, calls, first>>
    /\ UNCHANGED <<other, source, tokens, pos>>

\* into_opcodes, lines 88-94: the length check and the locals.
into_opcodes_enter ==
    /\ pc = "ready"
    /\ IF ExceedsMaxLength(tokens)
       THEN /\ Returned(Err(ExceededMaxLength))
            /\ UNCHANGED <<i, output, expecting_operand>>
       ELSE /\ output' = <<>>
            /\ expecting_operand' = FALSE
            /\ i' = 1
            /\ pc' = "loop"
            /\ UNCHANGED <<result, calls, first>>
    /\ UNCHANGED <<other, source, tokens, pos>>

\* into_opcodes_step as it would be if an Operand token were pushed but
\* not consumed (a loop that forgets to advance in one arm).
into_opcodes_step_operand_not_consumed ==
    /\ pc = "loop"
    /\ i <= Len(tokens)
    /\ LET token == tokens[i]
       IN  IF expecting_operand /\ ~IsOperand(token)
           THEN /\ Returned(Err(ExpectedOperand))
                /\ UNCHANGED <<i, output, expecting_operand>>
           ELSE /\ output' = output \o get_token_representation(token)
                /\ expecting_operand' = does_token_require_operand(token)
                /\ i' = IF IsOperand(token) THEN i ELSE i + 1
                /\ UNCHANGED <<pc, result, calls, first>>
    /\ UNCHANGED <<other, source, tokens, pos>>

\* into_opcodes_step as it would be if the flag were accumulated
\* (expecting_operand |= ...) instead of overwritten.
into_opcodes_step_accumulating ==
    /\ pc = "loop"
    /\ i <= Len(tokens)
    /\ LET token == tokens[i]
       IN  IF expecting_operand /\ ~IsOperand(token)
           THEN /\ Returned(Err(ExpectedOperand))
                /\ UNCHANGED <<i, output, expecting_operand>>
           ELSE /\ output' = output \o get_token_representation(token)
                /\ expecting_operand' =
                      (expecting_operand \/ does_token_require_operand(token))
                /\ i' = i + 1
                /\ UNCHANGED <<pc, result, calls, first>>
    /\ UNCHANGED <<other, source, tokens, pos>>

\* into_opcodes_step as it would be if an Operand token were rejected when
\* no operand is owed.
into_opcodes_step_strict ==
    /\ pc = "loop"
    /\ i <= Len(tokens)
    /\ LET token == tokens[i]
       IN  IF expecting_operand # IsOperand(token)
           THEN /\ Returned(Err(ExpectedOperand))
                /\ UNCHANGED <<i, output, expecting_operand>>
           ELSE /\ output' = output \o get_token_representation(token)
                /\ expecting_operand' = does_token_require_operand(token)
                /\ i' = i + 1
                /\ UNCHANGED <<pc, result, calls, first>>
    /\ UNCHANGED <<other, source, tokens, pos>>

\* into_opcodes_step as it would be if a missing operand were only noted
\* and reported after the loop.
into_opcodes_step_deferred_error ==
    /\ pc = "loop"
    /\ i <= Len(tokens)
    /\ LET token == tokens[i]
       IN  /\ output' = output \o get_token_representation(token)
           /\ expecting_operand' =
                 \/ expecting_operand /\ ~IsOperand(token)
                 \/ does_token_require_operand(token)
           /\ i' = i + 1
           /\ UNCHANGED <<pc, result, calls, first>>
    /\ UNCHANGED <<other, source, tokens, pos>>

\* into_opcodes, lines 95-115: one iteration of the for loop.
into_opcodes_step ==
    /\ pc = "loop"
    /\ i <= Len(tokens)
    /\ LET token == tokens[i]
       IN  IF expecting_operand /\ ~IsOperand(token)
           THEN /\ Returned(Err(ExpectedOperand))
                /\ UNCHANGED <<i, output, expecting_operand>>
           ELSE IF UnwrapPanics(token)
           THEN /\ Returned(Panic)
                /\ UNCHANGED <<i, output, expecting_operand>>
           ELSE /\ output' = output \o get_token_representation(token)
                /\ expecting_operand' = does_token_require_operand(token)
                /\ i' = i + 1
                /\ UNCHANGED <<pc, result, calls, first>>
    /\ UNCHANGED <<other, source, tokens, pos>>

\* into_opcodes, lines 117-121: after the loop.
into_opcodes_exit ==
    /\ pc = "loop"
    /\ i > Len(tokens)
    /\ IF expecting_operand
       THEN Returned(Err(ExpectedOperand))
       ELSE Returned(Ok(output))
    /\ UNCHANGED <<other, source, tokens, pos, i, output, expecting_operand>>

\* The caller calls into_opcodes on the same Program again.
call_again ==
    /\ pc = "done"
    /\ calls < MaxCalls
    /\ pc' = "ready"
    /\ UNCHANGED <<other, source, tokens, pos, i, output, expecting_operand, result, calls, first>>

\* The caller builds another Program from the same source text
\* (from_assembly, line 80: a fresh lexer).
build_again ==
    /\ pc = "done"
    /\ calls < MaxCalls
    /\ pc' = "lex"
    /\ pos' = 0
    /\ tokens' = <<>>
    /\ UNCHANGED <<other, source, i, output, expecting_operand, result, calls, first>>

----------------------------------------------------------------------------
(* A second caller running the same code on a Program of its own, its steps *)
(* interleaved with the first caller's.                                     *)

first_caller_vars ==
    <<source, tokens, pos, pc, i, output, expecting_operand, result, calls, first>>

\* Program::from_assembly(other.source)
other_from_assembly ==
    /\ other.pc = "start"
    /\ other' = [other EXCEPT !.tokens = Lex(other.source), !.pc = "ready"]
    /\ UNCHANGED first_caller_vars

\* into_opcodes, lines 88-94.
other_into_opcodes_enter ==
    /\ other.pc = "ready"
    /\ other' = IF ExceedsMaxLength(other.tokens)
                THEN [other EXCEPT !.result = Err(ExceededMaxLength), !.pc = "done"]
                ELSE [other EXCEPT !.output = <<>>, !.expecting_operand = FALSE,
                                   !.i = 1, !.pc = "loop"]
    /\ UNCHANGED first_caller_vars

\* other_into_opcodes_step as it would be if output were one buffer shared
\* by every call (a static) instead of a local of the call.
other_into_opcodes_step_shared_output ==
    /\ other.pc = "loop"
    /\ other.i <= Len(other.tokens)
    /\ LET token == other.tokens[other.i]
       IN  IF other.expecting_operand /\ ~IsOperand(token)
           THEN /\ other' = [other EXCEPT !.result = Err(ExpectedOperand), !.pc = "done"]
                /\ UNCHANGED output
           ELSE /\ output' = output \o get_token_representation(token)
                /\ other' = [other EXCEPT
                       !.output = output',
                       !.expecting_operand = does_token_require_operand(token),
                       !.i = other.i + 1]
    /\ UNCHANGED <<source, tokens, pos, pc, i, expecting_operand, result, calls, first>>

\* into_opcodes, lines 95-115.
other_into_opcodes_step ==
    /\ other.pc = "loop"
    /\ other.i <= Len(other.tokens)
    /\ LET token == other.tokens[other.i]
       IN  other' =
             IF other.expecting_operand /\ ~IsOperand(token)
             THEN [other EXCEPT !.result = Err(ExpectedOperand), !.pc = "done"]
             ELSE IF UnwrapPanics(token)
             THEN [other EXCEPT !.result = Panic, !.pc = "done"]
             ELSE [other EXCEPT
                     !.output = other.output \o get_token_representation(token),
                     !.expecting_operand = does_token_require_operand(token),
                     !.i = other.i + 1]
    /\ UNCHANGED first_caller_vars

\* into_opcodes, lines 117-121.
other_into_opcodes_exit ==
    /\ other.pc = "loop"
    /\ other.i > Len(other.tokens)
    /\ other' = [other EXCEPT
                   !.result = IF other.expecting_operand
                              THEN Err(ExpectedOperand)
                              ELSE Ok(other.output),
                   !.pc = "done"]
    /\ UNCHANGED first_caller_vars

Next ==
    \/ lexer_next
    \/ from_assembly_return
    \/ into_opcodes_enter
    \/ into_opcodes_step
    \/ into_opcodes_exit
    \/ call_again
    \/ build_again

Spec == Init /\ [][Next]_vars

\* The same program on long source texts.
InitLong == InitWith(LongTexts)
SpecLong == InitLong /\ [][Next]_vars

\* The same program on texts of hexadecimal digits.
InitHex == InitWith(HexTexts)
SpecHex == InitHex /\ [][Next]_vars

\* The same program on texts of overlapping mnemonics.
InitGreedy == InitWith(Texts(GreedyPieces, MaxGreedyPieces))
SpecGreedy == InitGreedy /\ [][Next]_vars

\* The same program on texts of mnemonics, operands and unrecognized
\* characters.
InitFlow == InitWith(Texts(FlowPieces, MaxFlowPieces))
SpecFlow == InitFlow /\ [][Next]_vars

\* The same, with the progress of a sequential program: from_assembly and
\* into_opcodes are straight-line code and a for loop over a Vec, so
\* whatever step is next is eventually taken.
SpecFair == InitFlow /\ [][Next]_vars /\ WF_vars(Next)

\* The same program on texts of hexadecimal digits and whitespace.
InitDigits == InitWith(Texts(DigitPieces, MaxDigitPieces))
SpecDigits == InitDigits /\ [][Next]_vars

\* Two callers, each with its own source text, in any interleaving.
InitTwo ==
    InitBoth(Texts(TwoPieces, MaxTwoPieces),
             {OtherCaller(t, "start") : t \in Texts(TwoPieces, MaxTwoPieces)})

NextTwo ==
    \/ lexer_next
    \/ from_assembly_return
    \/ into_opcodes_enter
    \/ into_opcodes_step
    \/ into_opcodes_exit
    \/ call_again
    \/ build_again
    \/ other_from_assembly
    \/ other_into_opcodes_enter
    \/ other_into_opcodes_step
    \/ other_into_opcodes_exit

SpecTwo == InitTwo /\ [][NextTwo]_vars

----------------------------------------------------------------------------
(* What the specification says of the encoder, stated without the code's   *)
(* helpers.                                                                *)

\* The operand-required set of the specification.
OperandMnemonics ==
    {"Load", "LoadComplement", "And", "AndComplement", "Or", "OrComplement",
     "ExclusiveNor", "Store", "StoreComplement", "InputEnable", "OutputEnable",
     "Jump"}

\* Some operand-requiring mnemonic of ts is last or is followed by a token
\* that is not an Operand.
MissingOperand(ts) ==
    \E k \in 1..Len(ts) :
        /\ ts[k][1] \in OperandMnemonics
        /\ (k = Len(ts) \/ ts[k + 1][1] # "Operand")

\* The tokens the specification's table gives a character.
TableVariants ==
    {"NoOp", "Load", "LoadComplement", "And", "AndComplement", "Or",
     "OrComplement", "ExclusiveNor", "Store", "StoreComplement", "InputEnable",
     "OutputEnable", "Jump", "Return", "SkipIfZero", "Operand"}

\* The fixed table of the specification.
TableChar(token) ==
    CASE token[1] = "NoOp"            -> "0"
      [] token[1] = "Load"            -> "1"
      [] token[1] = "LoadComplement"  -> "2"
      [] token[1] = "And"             -> "3"
      [] token[1] = "AndComplement"   -> "4"
      [] token[1] = "Or"              -> "5"
      [] token[1] = "OrComplement"    -> "6"
      [] token[1] = "ExclusiveNor"    -> "7"
      [] token[1] = "Store"           -> "8"
      [] token[1] = "StoreComplement" -> "9"
      [] token[1] = "InputEnable"     -> "A"
      [] token[1] = "OutputEnable"    -> "B"
      [] token[1] = "Jump"            -> "C"
      [] token[1] = "Return"          -> "D"
      [] token[1] = "SkipIfZero"      -> "E"
      [] token[1] = "Operand"         ->
            <<"0","1","2","3","4","5","6","7","8","9","A","B","C","D","E","F">>[token[2] + 1]

\* The result the specification gives a token sequence.
SpecEncode(ts) ==
    IF Len(ts) > MAX_PROGRAM_LENGTH THEN Err(ExceededMaxLength)
    ELSE IF MissingOperand(ts) THEN Err(ExpectedOperand)
    ELSE Ok([k \in 1..Len(ts) |-> TableChar(ts[k])])

Accepted == pc = "done" /\ result[1] = "Ok"

----------------------------------------------------------------------------
(* C1 *)

\* C1: for a program of at most 128 tokens, into_opcodes returns
\* Err(ExpectedOperand) exactly when some operand-requiring mnemonic is the
\* last token or is followed by a token that is not an Operand; otherwise it
\* returns Ok.
C1_ExpectedOperandIff ==
    (pc = "done" /\ Len(tokens) <= MAX_PROGRAM_LENGTH) =>
        IF MissingOperand(tokens)
        THEN result = Err(ExpectedOperand)
        ELSE result[1] = "Ok"

\* A mnemonic in the middle of the program lacks its operand and the call
\* was rejected.
C1_Witness ==
    /\ pc = "done"
    /\ result = Err(ExpectedOperand)
    /\ \E k \in 1..(Len(tokens) - 1) :
          /\ tokens[k][1] \in OperandMnemonics
          /\ tokens[k + 1][1] # "Operand"
          /\ ~MissingOperand(SubSeq(tokens, 1, k - 1))

----------------------------------------------------------------------------
(* C2 *)

\* C2: whenever into_opcodes returns Ok(s), s has one character per token,
\* in token order, each taken from the fixed table.
C2_OneTableCharPerToken ==
    Accepted =>
        /\ Len(result[2]) = Len(tokens)
        /\ \A k \in 1..Len(tokens) :
              /\ tokens[k][1] \in TableVariants
              /\ result[2][k] = TableChar(tokens[k])

----------------------------------------------------------------------------
(* C3 *)

\* C3: a program of more than 128 tokens returns Err(ExceededMaxLength),
\* also when it violates the operand rule, and a well-formed program of
\* exactly 128 tokens is accepted.
C3_LengthCheckedFirst ==
    pc = "done" =>
        /\ Len(tokens) > MAX_PROGRAM_LENGTH => result = Err(ExceededMaxLength)
        /\ (Len(tokens) = MAX_PROGRAM_LENGTH /\ ~MissingOperand(tokens)) =>
              result[1] = "Ok"

\* A program too long that also lacks an operand was rejected for its length.
C3_Witness ==
    /\ pc = "done"
    /\ Len(tokens) > MAX_PROGRAM_LENGTH
    /\ MissingOperand(tokens)
    /\ result = Err(ExceededMaxLength)

----------------------------------------------------------------------------
(* C4 *)

NotErrorToken(token) == token[1] # "Error"

\* C4: the token sequence holds only mnemonic and Operand tokens, never
\* Token::Error or Token::Comment, and the result of into_opcodes is the one
\* of the program without its unrecognized characters.
C4_UnrecognizedDiscarded ==
    /\ \A k \in 1..Len(tokens) : tokens[k][1] \notin {"Error", "Comment"}
    /\ pc = "done" => result = SpecEncode(SelectSeq(tokens, NotErrorToken))

----------------------------------------------------------------------------
(* C5 *)

\* C5: on success the output is as long as the token sequence the lexer
\* produced.
C5_OutputLengthIsTokenCount ==
    Accepted => Len(result[2]) = Len(tokens)

----------------------------------------------------------------------------
(* C6 *)

\* Position k of the source text is whitespace or inside a semicolon comment
\* running to the end of its line.
Blank(k) ==
    \/ source[k] \in WhitespaceChars
    \/ \E j \in 1..k :
          /\ source[j] = ";"
          /\ \A m \in j..k : source[m] # "\n"

\* The source text with every character of a comment turned into a space.
WithoutComments == [k \in 1..Len(source) |-> IF Blank(k) THEN " " ELSE source[k]]

\* C6: comments and whitespace contribute no token: the tokens are those of
\* the text with its comments blanked out, no more of them than characters
\* outside comments and whitespace, none of them Token::Comment; and the
\* call is rejected for a missing operand exactly when that text lacks one.
C6_CommentsTransparent ==
    /\ \A k \in 1..Len(tokens) : tokens[k][1] # "Comment"
    /\ pc # "lex" =>
          /\ tokens = Lex(WithoutComments)
          /\ Len(tokens) <= Cardinality({k \in 1..Len(source) : ~Blank(k)})
    /\ pc = "done" =>
          (result = Err(ExpectedOperand) <=> MissingOperand(Lex(WithoutComments)))

\* A mnemonic, a comment, a line terminator and
\* the operand: accepted as "LD 7" is.
C6_Witness ==
    /\ pc = "done"
    /\ source = <<"L", "D", ";", "\n", "7">>
    /\ result = Ok(<<"1", "7">>)

----------------------------------------------------------------------------
(* C7 *)

\* The mnemonics that are prefixes of their complement forms.
PrefixMnemonics ==
    { [lit |-> <<"L","D">>,     variant |-> "Load",  longer |-> "LoadComplement"],
      [lit |-> <<"A","N","D">>, variant |-> "And",   longer |-> "AndComplement"],
      [lit |-> <<"O","R">>,     variant |-> "Or",    longer |-> "OrComplement"],
      [lit |-> <<"S","T","O">>, variant |-> "Store", longer |-> "StoreComplement"] }

\* C7: the lexer never ends a Load, And, Or or Store token right before a
\* "C"; the texts LDC, ANDC, ORC, STOC lex as the one complement token, and
\* each alone is rejected for its missing operand.
C7_LongestMatch ==
    \A m \in PrefixMnemonics :
        /\ ~ /\ 0 < pos /\ pos < Len(source)
             /\ source[pos + 1] = "C"
             /\ tokens # <<>>
             /\ tokens[Len(tokens)] = <<m.variant>>
             /\ pos >= Len(m.lit)
             /\ SubSeq(source, pos - Len(m.lit) + 1, pos) = m.lit
        /\ (source = m.lit \o <<"C">> /\ pc # "lex") => tokens = <<<<m.longer>>>>
        /\ (source = m.lit \o <<"C">> /\ pc = "done") => result = Err(ExpectedOperand)

\* "STOC" alone was lexed as StoreComplement and rejected.
C7_Witness ==
    /\ pc = "done"
    /\ source = <<"S", "T", "O", "C">>
    /\ tokens = <<<<"StoreComplement">>>>
    /\ result = Err(ExpectedOperand)

----------------------------------------------------------------------------
(* C8 *)

\* C8 as stated: in an accepted program every operand-requiring mnemonic is
\* followed by exactly one Operand token.
C8_ExactlyOneOperand ==
    Accepted =>
        \A k \in 1..Len(tokens) :
            tokens[k][1] \in OperandMnemonics =>
                /\ k < Len(tokens)
                /\ tokens[k + 1][1] = "Operand"
                /\ (k + 2 <= Len(tokens) => tokens[k + 2][1] # "Operand")

\* C8 as amended: in an accepted program every operand-requiring mnemonic is
\* immediately followed by an Operand token (further Operand tokens may
\* follow it).
C8_FollowedByOperand ==
    Accepted =>
        \A k \in 1..Len(tokens) :
            tokens[k][1] \in OperandMnemonics =>
                /\ k < Len(tokens)
                /\ tokens[k + 1][1] = "Operand"

\* An accepted program in which a mnemonic is followed by two operands.
C8_Witness ==
    /\ Accepted
    /\ \E k \in 1..(Len(tokens) - 2) :
          /\ tokens[k][1] \in OperandMnemonics
          /\ tokens[k + 1][1] = "Operand"
          /\ tokens[k + 2][1] = "Operand"

----------------------------------------------------------------------------
(* C9 *)

\* C9: every into_opcodes call on a Program, and on a Program built again
\* from the same source text, returns what the first call returned, and no
\* step of a call changes the Program's tokens.
C9_Deterministic ==
    [][ /\ pc \in {"ready", "loop"} => tokens' = tokens
        /\ pc' = "done" => result' = first' ]_vars

\* A second call has returned the same non-empty output as the first.
C9_Witness ==
    /\ pc = "done"
    /\ calls >= 2
    /\ result = first
    /\ result[1] = "Ok"
    /\ result[2] # <<>>

----------------------------------------------------------------------------
(* C10 *)

UpperHexChars ==
    {"0","1","2","3","4","5","6","7","8","9","A","B","C","D","E","F"}

\* The upper-case spelling of a hexadecimal digit.
UpperCase(c) ==
    CASE c = "a" -> "A" [] c = "b" -> "B" [] c = "c" -> "C"
      [] c = "d" -> "D" [] c = "e" -> "E" [] c = "f" -> "F"
      [] OTHER -> c

\* C10: on a text of hexadecimal digits every character is an Operand of a
\* value in 0..15 whose emitted character is one upper-case hexadecimal
\* digit that lexes back to the same Operand, and two spellings of a digit
\* that differ in case only give the same Operand and the same character.
C10_HexRoundTrip ==
    Accepted =>
        /\ Len(tokens) = Len(source)
        /\ Len(result[2]) = Len(source)
        /\ \A k \in 1..Len(source) :
              /\ tokens[k][1] = "Operand"
              /\ tokens[k][2] \in 0..15
              /\ result[2][k] \in UpperHexChars
              /\ result[2][k] = UpperCase(source[k])
              /\ Lex(<<result[2][k]>>) = <<tokens[k]>>
        /\ \A j, k \in 1..Len(source) :
              UpperCase(source[j]) = UpperCase(source[k]) =>
                  /\ tokens[j] = tokens[k]
                  /\ result[2][j] = result[2][k]

\* "aA" was encoded as "AA".
C10_Witness ==
    /\ pc = "done"
    /\ source = <<"a", "A">>
    /\ tokens = <<<<"Operand", 10>>, <<"Operand", 10>>>>
    /\ result = Ok(<<"A", "A">>)

----------------------------------------------------------------------------
(* C11 *)

\* C11: into_opcodes visits the tokens in order, each at most once: every
\* iteration moves to the next token and the position never passes the end;
\* every call that has started returns; and what it returns is Ok(string),
\* Err(ExpectedOperand) or Err(ExceededMaxLength), never a panic.
C11_Terminates ==
    /\ [][(pc = "loop" /\ pc' = "loop") => i' = i + 1]_vars
    /\ [](pc = "loop" => i \in 1..(Len(tokens) + 1))
    /\ [](pc = "done" =>
            \/ result = Err(ExpectedOperand)
            \/ result = Err(ExceededMaxLength)
            \/ result[1] = "Ok" /\ Len(result[2]) <= Len(tokens))
    /\ (pc = "ready" ~> pc = "done")

\* A call has gone through three tokens, an unrecognized character among
\* them, and returned Ok.
C11_Witness ==
    /\ pc = "done"
    /\ Len(tokens) = 3
    /\ i = Len(tokens) + 1
    /\ \E k \in 1..Len(tokens) : tokens[k][1] = "Error"
    /\ result[1] = "Ok"

----------------------------------------------------------------------------
(* C12 *)

\* The positions at which an operand is owed and the token is no Operand.
OwedPositions(ts) ==
    {j \in 2..Len(ts) : ts[j - 1][1] \in OperandMnemonics /\ ts[j][1] # "Operand"}

\* C12: when some token is not the Operand that is owed, the call has
\* stopped at the first such position, whatever follows it, and returned
\* Err(ExpectedOperand) and nothing of the output built so far.
C12_FailFast ==
    (pc = "done" /\ Len(tokens) <= MAX_PROGRAM_LENGTH /\ OwedPositions(tokens) # {}) =>
        LET j == CHOOSE j \in OwedPositions(tokens) :
                     \A k \in OwedPositions(tokens) : j <= k
        IN  /\ i = j
            /\ Len(output) <= j - 1
            /\ result = Err(ExpectedOperand)

\* The call stopped at an owed position with tokens left after it and
\* characters already in output.
C12_Witness ==
    /\ pc = "done"
    /\ OwedPositions(tokens) # {}
    /\ i \in OwedPositions(tokens)
    /\ i < Len(tokens)
    /\ Len(output) >= 2
    /\ result = Err(ExpectedOperand)

----------------------------------------------------------------------------
(* C13 *)

\* C13: each token sets the flag anew: after one of the 12 operand-requiring
\* mnemonics an operand is owed, after NoOp, Return, SkipIfZero or an
\* Operand none is, whatever the flag was; and a program of at most 128
\* tokens made only of NoOp, Return and SkipIfZero is accepted.
C13_FlagOverwritten ==
    /\ [][(pc = "loop" /\ pc' = "loop") =>
            /\ tokens[i][1] \in OperandMnemonics => expecting_operand'
            /\ tokens[i][1] \in {"NoOp", "Return", "SkipIfZero", "Operand"} =>
                  ~expecting_operand']_vars
    /\ [](( /\ pc = "done"
            /\ Len(tokens) <= MAX_PROGRAM_LENGTH
            /\ \A k \in 1..Len(tokens) :
                  tokens[k][1] \in {"NoOp", "Return", "SkipIfZero"} )
          => result[1] = "Ok")

\* An Operand has cleared the flag that the mnemonic before it had set.
C13_Witness ==
    /\ pc = "loop"
    /\ i = 3
    /\ tokens[1][1] \in OperandMnemonics
    /\ tokens[2][1] = "Operand"
    /\ ~expecting_operand

----------------------------------------------------------------------------
(* C14 *)

\* The tokens of ts for which get_token_representation gives a character.
EmittingCount(ts) ==
    Cardinality({k \in 1..Len(ts) : ts[k][1] \notin {"Comment", "Error"}})

\* C14: ExceededMaxLength is returned exactly when the token vector has more
\* than 128 entries, the entries that emit no character counted too, and an
\* output returned has at most 128 characters.
C14_CeilingCountsEveryToken ==
    pc = "done" =>
        /\ result = Err(ExceededMaxLength) <=> Len(tokens) > MAX_PROGRAM_LENGTH
        /\ result[1] = "Ok" => Len(result[2]) <= MAX_PROGRAM_LENGTH

\* A vector of more than 128 entries of which at most 128 emit a character
\* was rejected for its length.
C14_Witness ==
    /\ pc = "done"
    /\ Len(tokens) > MAX_PROGRAM_LENGTH
    /\ EmittingCount(tokens) <= MAX_PROGRAM_LENGTH
    /\ result = Err(ExceededMaxLength)

----------------------------------------------------------------------------
(* C15 *)

NotWhitespace(c) == c \notin WhitespaceChars

\* The digits of the source text, in order.
SourceDigits == SelectSeq(source, NotWhitespace)

\* C15: a source text of hexadecimal digits and whitespace is accepted and
\* encodes to the upper-case form of its digits, an Operand being accepted
\* when none is owed, the first token included.
C15_DigitsAccepted ==
    pc = "done" =>
        result = Ok([k \in 1..Len(SourceDigits) |-> UpperCase(SourceDigits[k])])

\* "ADD" was encoded as "ADD".
C15_Witness ==
    /\ pc = "done"
    /\ source = <<"A", "D", "D">>
    /\ result = Ok(<<"A", "D", "D">>)

----------------------------------------------------------------------------
(* C16 *)

\* What into_opcodes returns for the Program of the text s when the call
\* runs alone: rejected for its length, else for a missing operand, else the
\* table characters of its tokens other than Token::Error.
AloneResult(s) ==
    LET ts == Lex(s)
        es == SelectSeq(ts, NotErrorToken)
    IN  IF Len(ts) > MAX_PROGRAM_LENGTH THEN Err(ExceededMaxLength)
        ELSE IF MissingOperand(ts) THEN Err(ExpectedOperand)
        ELSE Ok([k \in 1..Len(es) |-> TableChar(es[k])])

\* C16: with the steps of two callers interleaved in any order, each call
\* returns what it returns running alone.
C16_CallsIndependent ==
    /\ pc = "done" => result = AloneResult(source)
    /\ other.pc = "done" => other.result = AloneResult(other.source)

\* Both calls are inside their loops at once, each with its own output.
C16_Witness ==
    /\ pc = "loop"
    /\ other.pc = "loop"
    /\ output # <<>>
    /\ other.output # <<>>
    /\ output # other.output

====
